---- MODULE Spec2Model ----
(***************************************************************************)
(* Model of crates/anstyle/src/color.rs: the colour value types            *)
(* (AnsiColor, XTermColor, RgbColor, Color), their SGR encoders, the lazy  *)
(* DisplayColor renderer writing to a fallible sink, the 16-entry          *)
(* AnsiColor <-> XTermColor conversion and the `|` combinators.            *)
(*                                                                         *)
(* Text is a sequence of one-byte tokens ("0".."9", ";", "[", "m", ESC).   *)
(* An Option is a sequence of length 0 (None) or 1 (Some).                 *)
(***************************************************************************)
EXTENDS Integers, Sequences, FiniteSets, TLC

\* ------------------------------------------------------------ bounds ----
\* RgbColor components explored: 0..MaxRgbByte plus the digit-count edges.
MaxRgbByte == 2
\* bytes explored for the operands of `|` and for the purity runs.
MaxCompByte == 1
\* number of distinct Effects flags explored.
NumEffects == 3
\* the sink counts its write_str calls from 1; calls up to here may fail.
MaxWriteIdx == 9
\* at most this many write_str calls of one sink fail.
MaxFailures == 2

\* ------------------------------------------------------------- text -----
ESC == "ESC"

DigitChars == <<"0", "1", "2", "3", "4", "5", "6", "7", "8", "9">>

Digit(d) == DigitChars[d + 1]

RECURSIVE Decimal(_)
\* Display for u8: the decimal digits of n, most significant first.
Decimal(n) == IF n < 10 THEN <<Digit(n)>>
              ELSE Append(Decimal(n \div 10), Digit(n % 10))

\* ----------------------------------------------------------- values -----
None == <<>>
Some(v) == <<v>>

AnsiNames == <<"Black", "Red", "Green", "Yellow", "Blue", "Magenta", "Cyan",
               "White", "BrightBlack", "BrightRed", "BrightGreen",
               "BrightYellow", "BrightBlue", "BrightMagenta", "BrightCyan",
               "BrightWhite">>

\* Every value is a record of the same shape: ty is the Rust type, tag the
\* Color variant (for ty = "Color"), name the AnsiColor variant, n the bytes.
Value(ty, tag, name, n) == [ty |-> ty, tag |-> tag, name |-> name, n |-> n]

AnsiColor(name) == Value("AnsiColor", "", name, <<>>)
XTermColor(i) == Value("XTermColor", "", "", <<i>>)
RgbColor(r, g, b) == Value("RgbColor", "", "", <<r, g, b>>)
U8(i) == Value("u8", "", "", <<i>>)
Tuple3(r, g, b) == Value("(u8,u8,u8)", "", "", <<r, g, b>>)

Color_Ansi(a) == [a EXCEPT !.ty = "Color", !.tag = "Ansi"]
Color_XTerm(x) == [x EXCEPT !.ty = "Color", !.tag = "XTerm"]
Color_Rgb(c) == [c EXCEPT !.ty = "Color", !.tag = "Rgb"]

\* the payload of a Color variant, as matched by `match self`
Inner(color) ==
    [color EXCEPT !.tag = "",
                  !.ty = CASE color.tag = "Ansi" -> "AnsiColor"
                           [] color.tag = "XTerm" -> "XTermColor"
                           [] color.tag = "Rgb" -> "RgbColor"]

index(self) == self.n[1]
r(self) == self.n[1]
g(self) == self.n[2]
b(self) == self.n[3]

\* ----------------------------------------------------- AnsiColor --------
is_bright(self) ==
    CASE self.name = "Black" -> FALSE
      [] self.name = "Red" -> FALSE
      [] self.name = "Green" -> FALSE
      [] self.name = "Yellow" -> FALSE
      [] self.name = "Blue" -> FALSE
      [] self.name = "Magenta" -> FALSE
      [] self.name = "Cyan" -> FALSE
      [] self.name = "White" -> FALSE
      [] self.name = "BrightBlack" -> TRUE
      [] self.name = "BrightRed" -> TRUE
      [] self.name = "BrightGreen" -> TRUE
      [] self.name = "BrightYellow" -> TRUE
      [] self.name = "BrightBlue" -> TRUE
      [] self.name = "BrightMagenta" -> TRUE
      [] self.name = "BrightCyan" -> TRUE
      [] self.name = "BrightWhite" -> TRUE

suffix(self) ==
    CASE self.name = "Black" -> <<"0">>
      [] self.name = "Red" -> <<"1">>
      [] self.name = "Green" -> <<"2">>
      [] self.name = "Yellow" -> <<"3">>
      [] self.name = "Blue" -> <<"4">>
      [] self.name = "Magenta" -> <<"5">>
      [] self.name = "Cyan" -> <<"6">>
      [] self.name = "White" -> <<"7">>
      [] self.name = "BrightBlack" -> <<"0">>
      [] self.name = "BrightRed" -> <<"1">>
      [] self.name = "BrightGreen" -> <<"2">>
      [] self.name = "BrightYellow" -> <<"3">>
      [] self.name = "BrightBlue" -> <<"4">>
      [] self.name = "BrightMagenta" -> <<"5">>
      [] self.name = "BrightCyan" -> <<"6">>
      [] self.name = "BrightWhite" -> <<"7">>

\* ----------------------------------------------------- XTermColor -------
into_ansi_wrapping(self) == Some(AnsiColor(AnsiNames[(index(self) % 16) + 1]))

into_ansi(self) ==
    CASE index(self) = 0 -> Some(AnsiColor("Black"))
      [] index(self) = 1 -> Some(AnsiColor("Red"))
      [] index(self) = 2 -> Some(AnsiColor("Green"))
      [] index(self) = 3 -> Some(AnsiColor("Yellow"))
      [] index(self) = 4 -> Some(AnsiColor("Blue"))
      [] index(self) = 5 -> Some(AnsiColor("Magenta"))
      [] index(self) = 6 -> Some(AnsiColor("Cyan"))
      [] index(self) = 7 -> Some(AnsiColor("White"))
      [] index(self) = 8 -> Some(AnsiColor("BrightBlack"))
      [] index(self) = 9 -> Some(AnsiColor("BrightRed"))
      [] index(self) = 10 -> Some(AnsiColor("BrightGreen"))
      [] index(self) = 11 -> Some(AnsiColor("BrightYellow"))
      [] index(self) = 12 -> Some(AnsiColor("BrightBlue"))
      [] index(self) = 13 -> Some(AnsiColor("BrightMagenta"))
      [] index(self) = 14 -> Some(AnsiColor("BrightCyan"))
      [] index(self) = 15 -> Some(AnsiColor("BrightWhite"))
      [] OTHER -> None

\* a from_ansi that keeps the hue and drops the brightness
from_ansi_hue_only(color) ==
    XTermColor(CHOOSE h \in 0..7 : suffix(color) = <<Digit(h)>>)

from_ansi(color) ==
    CASE color.name = "Black" -> XTermColor(0)
      [] color.name = "Red" -> XTermColor(1)
      [] color.name = "Green" -> XTermColor(2)
      [] color.name = "Yellow" -> XTermColor(3)
      [] color.name = "Blue" -> XTermColor(4)
      [] color.name = "Magenta" -> XTermColor(5)
      [] color.name = "Cyan" -> XTermColor(6)
      [] color.name = "White" -> XTermColor(7)
      [] color.name = "BrightBlack" -> XTermColor(8)
      [] color.name = "BrightRed" -> XTermColor(9)
      [] color.name = "BrightGreen" -> XTermColor(10)
      [] color.name = "BrightYellow" -> XTermColor(11)
      [] color.name = "BrightBlue" -> XTermColor(12)
      [] color.name = "BrightMagenta" -> XTermColor(13)
      [] color.name = "BrightCyan" -> XTermColor(14)
      [] color.name = "BrightWhite" -> XTermColor(15)

\* impl From<u8> for XTermColor
XTermColor_from_u8(inner) == XTermColor(index(inner))

\* impl From<AnsiColor> for XTermColor
XTermColor_from_AnsiColor(inner) == from_ansi(inner)

\* impl From<(u8, u8, u8)> for RgbColor
RgbColor_from_tuple(inner) == RgbColor(inner.n[1], inner.n[2], inner.n[3])

\* impl From<..> for Color, selected by the argument's type (Into<Color>)
Color_from(inner) ==
    CASE inner.ty = "Color" -> inner
      [] inner.ty = "AnsiColor" -> Color_Ansi(inner)
      [] inner.ty = "XTermColor" -> Color_XTerm(inner)
      [] inner.ty = "RgbColor" -> Color_Rgb(inner)
      [] inner.ty = "u8" -> Color_XTerm(XTermColor_from_u8(inner))
      [] inner.ty = "(u8,u8,u8)" -> Color_Rgb(RgbColor_from_tuple(inner))

\* ------------------------------------------------------------ sink ------
\* A core::fmt::Write sink: buf is what it accepted, calls the write_str
\* calls it received in order, failAt the call numbers it rejects.
NewSink(failAt) == [failAt |-> failAt, calls |-> <<>>, buf |-> <<>>]

write_str(f, s) ==
    IF (Len(f.calls) + 1) \in f.failAt
    THEN [sink |-> [f EXCEPT !.calls = Append(@, [piece |-> s, ok |-> FALSE])],
          res |-> "Err"]
    ELSE [sink |-> [f EXCEPT !.calls = Append(@, [piece |-> s, ok |-> TRUE]),
                             !.buf = @ \o s],
          res |-> "Ok"]

RECURSIVE write_fmt(_, _)
\* write!(f, ..): one write_str per literal piece and per argument, in
\* order, returning at the first Err.
write_fmt(f, pieces) ==
    IF pieces = <<>> THEN [sink |-> f, res |-> "Ok"]
    ELSE LET w == write_str(f, Head(pieces)) IN
         IF w.res = "Err" THEN w ELSE write_fmt(w.sink, Tail(pieces))

\* -------------------------------------------------------- encoders ------
Str_ESC_LBRACKET == <<ESC, "[">>

XTermColor_ansi_fmt(self, f, context) ==
    LET w == CASE context = "Foreground" -> write_fmt(f, << <<"4", "8", ";">> >>)
               [] context = "Background" -> write_fmt(f, << <<"3", "8", ";">> >>)
               [] context = "Underline" -> write_fmt(f, << <<"5", "8", ";">> >>)
    IN IF w.res = "Err" THEN w
       ELSE write_fmt(w.sink, << <<"5", ";">>, Decimal(index(self)) >>)

RgbColor_ansi_fmt(self, f, context) ==
    LET w == CASE context = "Foreground" -> write_fmt(f, << <<"4", "8", ";">> >>)
               [] context = "Background" -> write_fmt(f, << <<"3", "8", ";">> >>)
               [] context = "Underline" -> write_fmt(f, << <<"5", "8", ";">> >>)
    IN IF w.res = "Err" THEN w
       ELSE write_fmt(w.sink, << <<"2", ";">>, Decimal(r(self)), <<";">>,
                                 Decimal(g(self)), <<";">>, Decimal(b(self)) >>)

\* an encoder that invents a legacy-style code for the underline context
AnsiColor_ansi_fmt_legacy_underline(self, f, context) ==
    CASE context = "Foreground" /\ is_bright(self) ->
             write_fmt(f, << <<"1", "0">>, suffix(self) >>)
      [] context = "Background" /\ is_bright(self) ->
             write_fmt(f, << <<"9">>, suffix(self) >>)
      [] context = "Foreground" /\ ~is_bright(self) ->
             write_fmt(f, << <<"4">>, suffix(self) >>)
      [] context = "Background" /\ ~is_bright(self) ->
             write_fmt(f, << <<"3">>, suffix(self) >>)
      [] context = "Underline" ->
             write_fmt(f, << <<"5">>, suffix(self) >>)

AnsiColor_ansi_fmt(self, f, context) ==
    CASE context = "Foreground" /\ is_bright(self) ->
             write_fmt(f, << <<"1", "0">>, suffix(self) >>)
      [] context = "Background" /\ is_bright(self) ->
             write_fmt(f, << <<"9">>, suffix(self) >>)
      [] context = "Foreground" /\ ~is_bright(self) ->
             write_fmt(f, << <<"4">>, suffix(self) >>)
      [] context = "Background" /\ ~is_bright(self) ->
             write_fmt(f, << <<"3">>, suffix(self) >>)
      [] context = "Underline" ->
             XTermColor_ansi_fmt(XTermColor_from_AnsiColor(self), f, context)

\* a dispatch that sends the Ansi variant down the palette path
Color_ansi_fmt_ansi_as_xterm(self, f, context) ==
    CASE self.tag = "Ansi" ->
             XTermColor_ansi_fmt(from_ansi(Inner(self)), f, context)
      [] self.tag = "XTerm" -> XTermColor_ansi_fmt(Inner(self), f, context)
      [] self.tag = "Rgb" -> RgbColor_ansi_fmt(Inner(self), f, context)

Color_ansi_fmt(self, f, context) ==
    CASE self.tag = "Ansi" -> AnsiColor_ansi_fmt(Inner(self), f, context)
      [] self.tag = "XTerm" -> XTermColor_ansi_fmt(Inner(self), f, context)
      [] self.tag = "Rgb" -> RgbColor_ansi_fmt(Inner(self), f, context)

\* trait AnsiColorFmt: the impl chosen by the type of the wrapped colour
ansi_fmt(self, f, context) ==
    CASE self.ty = "Color" -> Color_ansi_fmt(self, f, context)
      [] self.ty = "AnsiColor" -> AnsiColor_ansi_fmt(self, f, context)
      [] self.ty = "XTermColor" -> XTermColor_ansi_fmt(self, f, context)
      [] self.ty = "RgbColor" -> RgbColor_ansi_fmt(self, f, context)

\* ---------------------------------------------------- DisplayColor ------
DisplayColor(color, context) == [color |-> color, context |-> context]

\* a fmt that drops the `?` after the body and writes the terminator anyway
DisplayColor_fmt_ignoring_body_error(self, f) ==
    LET w1 == write_fmt(f, <<Str_ESC_LBRACKET>>) IN
    IF w1.res = "Err" THEN w1
    ELSE LET w2 == ansi_fmt(self.color, w1.sink, self.context)
             w3 == write_fmt(w2.sink, << <<"m">> >>)
         IN IF w3.res = "Err" THEN w3 ELSE [sink |-> w3.sink, res |-> "Ok"]

\* a fmt that writes the terminator twice
DisplayColor_fmt_double_terminator(self, f) ==
    LET w1 == write_fmt(f, <<Str_ESC_LBRACKET>>) IN
    IF w1.res = "Err" THEN w1
    ELSE LET w2 == ansi_fmt(self.color, w1.sink, self.context) IN
         IF w2.res = "Err" THEN w2
         ELSE LET w3 == write_fmt(w2.sink, << <<"m">>, <<"m">> >>) IN
              IF w3.res = "Err" THEN w3 ELSE [sink |-> w3.sink, res |-> "Ok"]

DisplayColor_fmt(self, f) ==
    LET w1 == write_fmt(f, <<Str_ESC_LBRACKET>>) IN
    IF w1.res = "Err" THEN w1
    ELSE LET w2 == ansi_fmt(self.color, w1.sink, self.context) IN
         IF w2.res = "Err" THEN w2
         ELSE LET w3 == write_fmt(w2.sink, << <<"m">> >>) IN
              IF w3.res = "Err" THEN w3 ELSE [sink |-> w3.sink, res |-> "Ok"]

\* Color::render_fg, AnsiColor::render_fg, XTermColor::render_fg and
\* RgbColor::render_fg have the same body; self keeps its own type.
render_fg(self) == DisplayColor(self, "Foreground")

render_bg(self) == DisplayColor(self, "Background")

\* the third ColorContext, built by the crate's callers of DisplayColor
display_underline(self) == DisplayColor(self, "Underline")

\* ------------------------------------------------ Style and Effects -----
Effects == SUBSET (1..NumEffects)

BOLD == {1}

Style_new == [fg |-> None, bg |-> None, effects |-> {}]

fg_color(style, fg) == [style EXCEPT !.fg = fg]

bg_color(style, bg) == [style EXCEPT !.bg = bg]

Style_bitor_Effects(style, rhs) == [style EXCEPT !.effects = @ \cup rhs]

\* ------------------------------------------------------------ `|` -------
Color_bitor(self, rhs) ==
    bg_color(fg_color(Style_new, Some(self)), Some(Color_from(rhs)))

Color_bitor_Effects(self, rhs) ==
    Style_bitor_Effects(fg_color(Style_new, Some(self)), rhs)

\* a `|` that takes the left operand as background
AnsiColor_bitor_swapped(self, rhs) ==
    bg_color(fg_color(Style_new, Some(Color_from(rhs))), Some(Color_from(self)))

AnsiColor_bitor(self, rhs) ==
    bg_color(fg_color(Style_new, Some(Color_from(self))), Some(Color_from(rhs)))

AnsiColor_bitor_Effects(self, rhs) ==
    Style_bitor_Effects(fg_color(Style_new, Some(Color_from(self))), rhs)

XTermColor_bitor(self, rhs) ==
    bg_color(fg_color(Style_new, Some(Color_from(self))), Some(Color_from(rhs)))

XTermColor_bitor_Effects(self, rhs) ==
    Style_bitor_Effects(fg_color(Style_new, Some(Color_from(self))), rhs)

RgbColor_bitor(self, rhs) ==
    bg_color(fg_color(Style_new, Some(Color_from(self))), Some(Color_from(rhs)))

RgbColor_bitor_Effects(self, rhs) ==
    Style_bitor_Effects(fg_color(Style_new, Some(Color_from(self))), rhs)

\* operator resolution of `lhs | rhs` by the static type of lhs
bitor(lhs, rhs) ==
    CASE lhs.ty = "Color" -> Color_bitor(lhs, rhs)
      [] lhs.ty = "AnsiColor" -> AnsiColor_bitor(lhs, rhs)
      [] lhs.ty = "XTermColor" -> XTermColor_bitor(lhs, rhs)
      [] lhs.ty = "RgbColor" -> RgbColor_bitor(lhs, rhs)

bitor_Effects(lhs, rhs) ==
    CASE lhs.ty = "Color" -> Color_bitor_Effects(lhs, rhs)
      [] lhs.ty = "AnsiColor" -> AnsiColor_bitor_Effects(lhs, rhs)
      [] lhs.ty = "XTermColor" -> XTermColor_bitor_Effects(lhs, rhs)
      [] lhs.ty = "RgbColor" -> RgbColor_bitor_Effects(lhs, rhs)

\* ----------------------------------------------------- input sets -------
Bytes == 0..255

RgbBytes == (0..MaxRgbByte) \cup {10, 100, 255}

CompBytes == (0..MaxCompByte) \cup {255}

AnsiColors == {AnsiColor(AnsiNames[i]) : i \in 1..16}

Plain(xs, cs) ==
    AnsiColors \cup {XTermColor(i) : i \in xs}
               \cup {RgbColor(x, y, z) : x \in cs, y \in cs, z \in cs}

Wrapped(S) == {Color_from(c) : c \in S}

RenderColors == Plain(Bytes, RgbBytes) \cup Wrapped(Plain(Bytes, RgbBytes))

PureColors == Plain(CompBytes, CompBytes) \cup Wrapped(Plain(CompBytes, CompBytes))

IntoColor ==
    PureColors \cup {U8(i) : i \in CompBytes}
               \cup {Tuple3(x, y, z) : x \in CompBytes, y \in CompBytes, z \in CompBytes}

FailSets == {F \in SUBSET (1..MaxWriteIdx) : Cardinality(F) <= MaxFailures}

\* ------------------------------------------------------------ state -----
VARIABLES
    dc,      \* Option<DisplayColor>: the renderer obtained from render_*
    sink,    \* the sink the renderer was formatted into
    result,  \* "Unset", or the fmt::Result of the render
    xterm,   \* Option<XTermColor>: result of from_ansi / From<u8>
    origin,  \* Option<AnsiColor>: the argument xterm was converted from
    ansi,    \* <<>> before into_ansi, else <<Option<AnsiColor>>>
    style,   \* Option<Style>: result of `|`
    args,    \* the operands of the `|` that produced style
    prev     \* Option: an earlier completed render kept by the caller

vars == <<dc, sink, result, xterm, origin, ansi, style, args, prev>>

NoArgs == [lhs |-> None, rhs |-> None, effects |-> None]

Idle == dc = None /\ xterm = None /\ style = None

Init ==
    /\ dc = None
    /\ sink = NewSink({})
    /\ result = "Unset"
    /\ xterm = None
    /\ origin = None
    /\ ansi = <<>>
    /\ style = None
    /\ args = NoArgs
    /\ prev = None

Render_fg(colors) ==
    /\ Idle
    /\ \E c \in colors : dc' = Some(render_fg(c))
    /\ UNCHANGED <<sink, result, xterm, origin, ansi, style, args, prev>>

Render_bg(colors) ==
    /\ Idle
    /\ \E c \in colors : dc' = Some(render_bg(c))
    /\ UNCHANGED <<sink, result, xterm, origin, ansi, style, args, prev>>

Display_underline(colors) ==
    /\ Idle
    /\ \E c \in colors : dc' = Some(display_underline(c))
    /\ UNCHANGED <<sink, result, xterm, origin, ansi, style, args, prev>>

\* format the renderer once into a fresh sink, which rejects the write_str
\* calls numbered in one of failSets
Fmt(failSets) ==
    /\ dc # None
    /\ result = "Unset"
    /\ \E failAt \in failSets :
          LET w == DisplayColor_fmt(dc[1], NewSink(failAt)) IN
             /\ sink' = w.sink
             /\ result' = w.res
    /\ UNCHANGED <<dc, xterm, origin, ansi, style, args, prev>>

From_ansi ==
    /\ Idle
    /\ \E a \in AnsiColors :
          /\ xterm' = Some(from_ansi(a))
          /\ origin' = Some(a)
    /\ UNCHANGED <<dc, sink, result, ansi, style, args, prev>>

From_u8 ==
    /\ Idle
    /\ \E i \in Bytes : xterm' = Some(XTermColor_from_u8(U8(i)))
    /\ origin' = None
    /\ UNCHANGED <<dc, sink, result, ansi, style, args, prev>>

Into_ansi ==
    /\ xterm # None
    /\ ansi = <<>>
    /\ ansi' = <<into_ansi(xterm[1])>>
    /\ UNCHANGED <<dc, sink, result, xterm, origin, style, args, prev>>

BitOr ==
    /\ Idle
    /\ \E lhs \in PureColors, rhs \in IntoColor :
          /\ style' = Some(bitor(lhs, rhs))
          /\ args' = [lhs |-> Some(lhs), rhs |-> Some(rhs), effects |-> None]
    /\ UNCHANGED <<dc, sink, result, xterm, origin, ansi, prev>>

BitOr_Effects ==
    /\ Idle
    /\ \E lhs \in PureColors, e \in Effects :
          /\ style' = Some(bitor_Effects(lhs, e))
          /\ args' = [lhs |-> Some(lhs), rhs |-> None, effects |-> Some(e)]
    /\ UNCHANGED <<dc, sink, result, xterm, origin, ansi, prev>>

\* the temporaries go out of scope; the caller may keep a finished render
Drop(keeps) ==
    /\ ~Idle
    /\ \E keep \in keeps :
          /\ keep => result = "Ok"
          /\ prev' = IF keep THEN Some([dc |-> dc[1], buf |-> sink.buf])
                     ELSE prev
    /\ dc' = None
    /\ sink' = NewSink({})
    /\ result' = "Unset"
    /\ xterm' = None
    /\ origin' = None
    /\ ansi' = <<>>
    /\ style' = None
    /\ args' = NoArgs

Next ==
    \/ Render_fg(RenderColors)
    \/ Render_bg(RenderColors)
    \/ Display_underline(RenderColors)
    \/ Fmt(FailSets)
    \/ From_ansi
    \/ From_u8
    \/ Into_ansi
    \/ BitOr
    \/ BitOr_Effects
    \/ Drop({FALSE})

Spec == Init /\ [][Next]_vars

\* Renders on a sink that never fails, with the caller keeping earlier output.
NextPure ==
    \/ Render_fg(PureColors)
    \/ Render_bg(PureColors)
    \/ Display_underline(PureColors)
    \/ Fmt({{}})
    \/ Drop(BOOLEAN)

SpecPure == Init /\ [][NextPure]_vars

\* ================================================== properties ==========
IsDigit(ch) == \E d \in 0..9 : DigitChars[d + 1] = ch

DigitVal(ch) == CHOOSE d \in 0..9 : DigitChars[d + 1] = ch

RECURSIVE ParseDec(_)
ParseDec(t) == IF t = <<>> THEN 0
               ELSE 10 * ParseDec(SubSeq(t, 1, Len(t) - 1)) + DigitVal(t[Len(t)])

\* t is the decimal numeral of v: digits only, no leading zero, value v
IsDecimalOf(t, v) ==
    /\ Len(t) >= 1
    /\ \A i \in 1..Len(t) : IsDigit(t[i])
    /\ Len(t) > 1 => t[1] # "0"
    /\ ParseDec(t) = v

RECURSIVE SplitOn(_, _)
\* the fields of t between the separators sep
SplitOn(t, sep) ==
    IF \A i \in 1..Len(t) : t[i] # sep THEN <<t>>
    ELSE LET k == CHOOSE i \in 1..Len(t) :
                     t[i] = sep /\ \A j \in 1..(i - 1) : t[j] # sep
         IN <<SubSeq(t, 1, k - 1)>> \o SplitOn(SubSeq(t, k + 1, Len(t)), sep)

RECURSIVE Concat(_)
Concat(ps) == IF ps = <<>> THEN <<>> ELSE Head(ps) \o Concat(Tail(ps))

Count(t, ch) == Cardinality({i \in 1..Len(t) : t[i] = ch})

\* position of an AnsiColor in declaration order, 0..15
AnsiIndex(a) == (CHOOSE i \in 1..16 : AnsiNames[i] = a.name) - 1

Hue(a) == AnsiIndex(a) % 8

Bright(a) == AnsiIndex(a) >= 8

Unwrap(c) == IF c.ty = "Color" THEN Inner(c) ELSE c

\* the Color a value converts to, written out field by field
ColorOf(v) ==
    [ty |-> "Color",
     tag |-> CASE v.ty = "Color" -> v.tag
               [] v.ty = "AnsiColor" -> "Ansi"
               [] v.ty \in {"XTermColor", "u8"} -> "XTerm"
               [] v.ty \in {"RgbColor", "(u8,u8,u8)"} -> "Rgb",
     name |-> v.name,
     n |-> v.n]

RenderedOk == dc # None /\ result = "Ok"

Body == SubSeq(sink.buf, 3, Len(sink.buf) - 1)

\* C1: converting an AnsiColor with from_ansi and the result back with
\* into_ansi gives Some of the same AnsiColor, brightness included.
C1_RoundTrip ==
    (origin # None /\ ansi # <<>>) => ansi[1] = Some(origin[1])

C1_Witness ==
    /\ origin = Some(AnsiColor("BrightRed"))
    /\ xterm = Some(XTermColor(9))
    /\ ansi = <<Some(AnsiColor("BrightRed"))>>

\* C2: into_ansi returns None for every index in 16..255 and Some for every
\* index in 0..15.
C2_IntoAnsiPartial ==
    ansi # <<>> =>
        /\ index(xterm[1]) \in 16..255 => ansi[1] = None
        /\ index(xterm[1]) \in 0..15 => ansi[1] # None

C2_Witness ==
    /\ xterm = Some(XTermColor(200))
    /\ origin = None
    /\ ansi = <<None>>

\* C3: an AnsiColor with hue h renders as ESC [ 3h m (foreground) and
\* ESC [ 4h m (background) when normal, ESC [ 9h m and ESC [ 10h m when bright.
C3_LegacyCodes ==
    (RenderedOk /\ dc[1].color.ty = "AnsiColor"
                /\ dc[1].context \in {"Foreground", "Background"}) =>
        LET a == dc[1].color
            code == CASE dc[1].context = "Foreground" /\ ~Bright(a) -> <<"3">>
                      [] dc[1].context = "Background" /\ ~Bright(a) -> <<"4">>
                      [] dc[1].context = "Foreground" /\ Bright(a) -> <<"9">>
                      [] dc[1].context = "Background" /\ Bright(a) -> <<"1", "0">>
        IN sink.buf = <<ESC, "[">> \o code \o <<Digit(Hue(a))>> \o <<"m">>

\* C4: XTermColor(N) renders as ESC [ 38;5;N m in the foreground,
\* ESC [ 48;5;N m in the background and with prefix 58 for underline.
C4_PaletteCodes ==
    (RenderedOk /\ dc[1].color.ty = "XTermColor") =>
        LET pre == CASE dc[1].context = "Foreground" -> <<"3", "8">>
                     [] dc[1].context = "Background" -> <<"4", "8">>
                     [] dc[1].context = "Underline" -> <<"5", "8">>
            f == SplitOn(Body, ";")
        IN /\ sink.buf[1] = ESC /\ sink.buf[2] = "["
           /\ sink.buf[Len(sink.buf)] = "m"
           /\ Len(f) = 3
           /\ f[1] = pre
           /\ f[2] = <<"5">>
           /\ IsDecimalOf(f[3], index(dc[1].color))

\* C5: RgbColor(R,G,B) renders as ESC [ 38;2;R;G;B m in the foreground,
\* ESC [ 48;2;R;G;B m in the background and with prefix 58 for underline.
C5_RgbCodes ==
    (RenderedOk /\ dc[1].color.ty = "RgbColor") =>
        LET pre == CASE dc[1].context = "Foreground" -> <<"3", "8">>
                     [] dc[1].context = "Background" -> <<"4", "8">>
                     [] dc[1].context = "Underline" -> <<"5", "8">>
            f == SplitOn(Body, ";")
        IN /\ sink.buf[1] = ESC /\ sink.buf[2] = "["
           /\ sink.buf[Len(sink.buf)] = "m"
           /\ Len(f) = 5
           /\ f[1] = pre
           /\ f[2] = <<"2">>
           /\ IsDecimalOf(f[3], r(dc[1].color))
           /\ IsDecimalOf(f[4], g(dc[1].color))
           /\ IsDecimalOf(f[5], b(dc[1].color))

\* C6: a | b is a Style with foreground Some(Color of a) and background
\* Some(Color of b) and nothing else set; a | e for Effects e is a Style with
\* foreground Some(Color of a), no background and effects exactly e.
C6_Composition ==
    style # None =>
        /\ style[1].fg = Some(ColorOf(args.lhs[1]))
        /\ args.rhs # None =>
              /\ style[1].bg = Some(ColorOf(args.rhs[1]))
              /\ style[1].effects = {}
        /\ args.effects # None =>
              /\ style[1].bg = None
              /\ style[1].effects = args.effects[1]

C6_Witness ==
    /\ args.lhs = Some(AnsiColor("Black"))
    /\ args.rhs = Some(AnsiColor("White"))
    /\ style # None
    /\ style[1].fg = Some(Color_Ansi(AnsiColor("Black")))
    /\ style[1].bg = Some(Color_Ansi(AnsiColor("White")))

\* C7: a render on a sink that never fails writes the introducer ESC [ first
\* and the terminator m last; the output has one ESC, at position 1, one m,
\* at the end, and only decimal digits and ';' in between.
C7_OneSequence ==
    (dc # None /\ result # "Unset" /\ sink.failAt = {}) =>
        LET out == sink.buf
            n == Len(sink.calls)
        IN /\ result = "Ok"
           /\ n >= 3
           /\ sink.calls[1].piece = <<ESC, "[">>
           /\ sink.calls[n].piece = <<"m">>
           /\ out = Concat([i \in 1..n |-> sink.calls[i].piece])
           /\ Len(out) >= 5
           /\ out[1] = ESC /\ out[2] = "[" /\ out[Len(out)] = "m"
           /\ Count(out, ESC) = 1
           /\ Count(out, "m") = 1
           /\ \A i \in 3..(Len(out) - 1) : IsDigit(out[i]) \/ out[i] = ";"
           /\ IsDigit(out[3]) /\ IsDigit(out[Len(out) - 1])

C7_Witness ==
    /\ dc = Some(DisplayColor(RgbColor(255, 0, 100), "Underline"))
    /\ result = "Ok"
    /\ sink.failAt = {}
    /\ Len(sink.calls) = 9

\* C8: a render whose sink rejects a write returns Err, makes no write_str
\* call after the first rejected one (no terminator, no retry), and returns
\* Ok only when every call was accepted.
C8_FailurePropagates ==
    (dc # None /\ result # "Unset") =>
        LET n == Len(sink.calls) IN
           /\ result = "Err" <=> \E i \in 1..n : ~sink.calls[i].ok
           /\ \A i \in 1..(n - 1) : sink.calls[i].ok
           /\ \A i \in 1..n : sink.calls[i].ok <=> i \notin sink.failAt
           /\ result = "Err" => sink.buf = <<>> \/ sink.buf[Len(sink.buf)] # "m"

C8_Witness ==
    /\ dc = Some(DisplayColor(XTermColor(200), "Foreground"))
    /\ sink.failAt = {3}
    /\ result = "Err"
    /\ Len(sink.calls) = 3
    /\ sink.buf = <<ESC, "[", "4", "8", ";">>

C10_UnderlineViaPalette ==
    (RenderedOk /\ dc[1].context = "Underline"
                /\ Unwrap(dc[1].color).ty = "AnsiColor") =>
        LET a == Unwrap(dc[1].color)
            viaXTerm == XTermColor_ansi_fmt(XTermColor(AnsiIndex(a)),
                                            NewSink({}), "Underline")
        IN /\ Body = viaXTerm.sink.buf
           /\ Len(Body) >= 6
           /\ SubSeq(Body, 1, 5) = <<"5", "8", ";", "5", ";">>
           /\ IsDecimalOf(SubSeq(Body, 6, Len(Body)), AnsiIndex(a))

C10_Witness ==
    /\ dc = Some(DisplayColor(AnsiColor("BrightRed"), "Underline"))
    /\ result = "Ok"
    /\ sink.buf = <<ESC, "[", "5", "8", ";", "5", ";", "9", "m">>

====
